---- MODULE Spec2Model ----
(***************************************************************************)
(* A model of lib/backup.py: taking an xtrabackup backup and moving it     *)
(* into the durable directory, pruning old backups, locating a backup on   *)
(* s3 or on a remote server, the xb_restore_status ledger, and the          *)
(* decompress / apply-log stages of a restore.                              *)
(*                                                                         *)
(* Text is modelled as a sequence of tokens (a path is the sequence of its *)
(* pieces, a log line the sequence of its characters), so that joining,    *)
(* suffix tests and substring tests are computed and not assumed.          *)
(*                                                                         *)
(* The module is Python 2 code (urllib.quote_plus, boto): comparisons      *)
(* between a str and an int follow CPython 2.                              *)
(***************************************************************************)
EXTENDS Integers, Sequences, FiniteSets, TLC

VARIABLES
    fs,          \* backup: the paths that exist under TEMP_DIR and TARGET_DIR
    bk,          \* backup: the outcome of the xtrabackup_instance call
    dir,         \* retention: backup_path's entries, name -> st_mtime
    rm,          \* retention: the outcome of the remove_backups call
    store,       \* locate: the artifacts held by the bucket / the remote host
    loc,         \* locate: the outcome of the get_*_backup call
    ledger,      \* test.xb_restore_status: its rows
    nextId,      \* test.xb_restore_status: the AUTO_INCREMENT counter
    tableExists, \* whether test.xb_restore_status exists
    rl,          \* ledger: the last start_/update_restore_log call
    pp,          \* post-processing: the outcome of the stage that ran
    rep,         \* replication: the outcome of the quick_test_replication call
    unp          \* unpack: the outcome of the xbstream_unpack call

vars == <<fs, bk, dir, rm, store, loc, ledger, nextId, tableExists, rl, pp,
         rep, unp>>

(***************************************************************************)
(* Bounds.                                                                 *)
(***************************************************************************)
MaxLineLen == 3
MaxLogLines == 2
NumBackups == 2
MaxMtime == 3
MaxRows == 2
MaxPolls == 2
MaxSize == 2

(***************************************************************************)
(* Text.                                                                   *)
(***************************************************************************)
Chars == {"O", "K"}

\* 'innobackupex: completed OK!'
MARKER == <<"O", "K">>

SeqsUpTo(S, n) == UNION {[1..k -> S] : k \in 0..n}

Lines == SeqsUpTo(Chars, MaxLineLen)

\* file.readlines(): the lines of a log file
Logs == SeqsUpTo(Lines, MaxLogLines)

\* sub in s
StrIn(sub, s) ==
    \E i \in 1..(Len(s) + 1) :
        /\ i + Len(sub) - 1 <= Len(s)
        /\ SubSeq(s, i, i + Len(sub) - 1) = sub

\* s.endswith(suffix), suffix one string
EndsWith(s, suffix) ==
    /\ Len(suffix) <= Len(s)
    /\ SubSeq(s, Len(s) - Len(suffix) + 1, Len(s)) = suffix

\* ''.join((a, b))
StrJoin(a, b) == a \o b

\* os.path.join(a, b)
os_path_join(a, b) == a \o <<"/">> \o b

\* The outcome of "'innobackupex: completed OK!' not in lines[-1]": lines[-1]
\* of an empty list raises IndexError.
MarkerCheck(lines) ==
    IF Len(lines) = 0 THEN "IndexError"
    ELSE IF ~StrIn(MARKER, lines[Len(lines)]) THEN "Exception"
    ELSE "ok"

(***************************************************************************)
(* xtrabackup_instance                                                     *)
(***************************************************************************)
TEMP_DIR == <<"/backup/tmp/xtrabackup">>
TARGET_DIR == <<"/backup/mysql">>
XBSTREAM_SUFFIX == <<".xbstream">>
LOG_SUFFIX == <<".log">>

Hosts == {"db001", "db002"}
Ports == {"3306"}
\* time.strftime('%Y-%m-%d-%H:%M:%S')
Timestamps == {"2014-06-05-00:00:00", "2014-06-06-00:00:00"}

get_paths(port) ==
    [temp_path |-> os_path_join(TEMP_DIR, <<port>>),
     target_path |-> os_path_join(TARGET_DIR, <<port>>)]

backup_file_name(hostname, port, timestamp) ==
    <<"mysql-", hostname, "-", port, "-", timestamp>> \o XBSTREAM_SUFFIX

tmp_xtra_path_of(hostname, port, timestamp) ==
    os_path_join(get_paths(port).temp_path,
                 backup_file_name(hostname, port, timestamp))

target_xtra_path_of(hostname, port, timestamp) ==
    os_path_join(get_paths(port).target_path,
                 backup_file_name(hostname, port, timestamp))

tmp_log_of(hostname, port, timestamp) ==
    StrJoin(tmp_xtra_path_of(hostname, port, timestamp), LOG_SUFFIX)

\* line 183: built from tmp_xtra_path
target_log_of(hostname, port, timestamp) ==
    StrJoin(tmp_xtra_path_of(hostname, port, timestamp), LOG_SUFFIX)

\* os.rename(src, dst) on the set of existing paths
os_rename(files, src, dst) == (files \ {src}) \cup {dst}

\* line 213: the check of the log that decides whether the backup is moved
xtra_log_check_anyline(xtra_log) ==
    IF \E i \in 1..Len(xtra_log) : StrIn(MARKER, xtra_log[i]) THEN "ok"
    ELSE "Exception"

xtra_log_check(xtra_log) == MarkerCheck(xtra_log)

NoBackup == [status |-> "none"]

\* The shell command writes the artifact and the log under temp_path; the
\* exit status of the command is not read.
xtrabackup_instance(hostname, port, timestamp, xtra_log) ==
    LET tmp_xtra_path == tmp_xtra_path_of(hostname, port, timestamp)
        target_xtra_path == target_xtra_path_of(hostname, port, timestamp)
        tmp_log == tmp_log_of(hostname, port, timestamp)
        target_log == target_log_of(hostname, port, timestamp)
        written == fs \cup {tmp_xtra_path, tmp_log}
        check == xtra_log_check(xtra_log)
        call == [hostname |-> hostname, port |-> port, timestamp |-> timestamp,
                 xtra_log |-> xtra_log, before |-> fs]
    IN  /\ IF check # "ok"
           THEN /\ fs' = written
                /\ bk' = [status |-> check, call |-> call]
           ELSE /\ fs' = os_rename(os_rename(written, tmp_xtra_path, target_xtra_path),
                                   tmp_log, target_log)
                /\ bk' = [status |-> "ok", call |-> call,
                          returned |-> target_xtra_path]
        /\ UNCHANGED <<dir, rm, store, loc, ledger, nextId, tableExists, rl, pp, rep, unp>>

\* What the directories may hold before the run: earlier backups and their logs.
EarlierFiles ==
    LET h == "db001"
        p == "3306"
        t == "2014-06-05-00:00:00"
    IN  {target_xtra_path_of(h, p, t),
         StrJoin(target_xtra_path_of(h, p, t), LOG_SUFFIX),
         tmp_log_of(h, p, t)}

Init_Backup_rest ==
    /\ dir = <<>> /\ rm = [status |-> "none"]
    /\ store = <<>> /\ loc = [status |-> "none"]
    /\ ledger = {} /\ nextId = 1 /\ tableExists = FALSE /\ rl = [op |-> "none"]
    /\ pp = [status |-> "none"]
    /\ rep = [status |-> "none"] /\ unp = [status |-> "none"]

Init_Backup ==
    /\ fs \in SUBSET EarlierFiles
    /\ bk = NoBackup
    /\ Init_Backup_rest

\* One run, from each of the initial directories
Next_Backup ==
    /\ bk.status = "none"
    /\ \E hostname \in {"db001"}, port \in Ports, timestamp \in Timestamps,
       xtra_log \in Logs :
        xtrabackup_instance(hostname, port, timestamp, xtra_log)

SpecBackup == Init_Backup /\ [][Next_Backup]_vars

\* The entries of a directory
UnderDir(files, d) == {f \in files : Len(f) > Len(d) /\ SubSeq(f, 1, Len(d)) = d}

DurableFiles(files) == UNION {UnderDir(files, get_paths(p).target_path) : p \in Ports}

LastLineHasMarker(lines) == Len(lines) > 0 /\ StrIn(MARKER, lines[Len(lines)])

\* C1: when the run finishes and the last line of its log lacks the success
\* marker (an empty log included), the run fails with an error and the durable
\* directory holds exactly what it held before: neither the artifact nor its
\* log is moved there.
C1_FailedBackupNotMoved ==
    (bk.status # "none" /\ ~LastLineHasMarker(bk.call.xtra_log)) =>
        /\ bk.status \in {"Exception", "IndexError"}
        /\ DurableFiles(fs) = DurableFiles(bk.call.before)
        /\ tmp_xtra_path_of(bk.call.hostname, bk.call.port, bk.call.timestamp) \in fs
        /\ tmp_log_of(bk.call.hostname, bk.call.port, bk.call.timestamp) \in fs

\* A run whose log has the marker on an earlier line but not on the last one
\* has failed, and a run with an empty log has failed.
C1_Witness ==
    /\ bk.status = "Exception"
    /\ Len(bk.call.xtra_log) = 2
    /\ StrIn(MARKER, bk.call.xtra_log[1])
    /\ DurableFiles(bk.call.before) # {}

\* C2: when the run succeeds, the artifact and its log are both in
\* TARGET_DIR/<port> and neither is left in TEMP_DIR/<port>.
C2_SuccessMovesArtifactAndLog ==
    bk.status = "ok" =>
        LET h == bk.call.hostname
            p == bk.call.port
            t == bk.call.timestamp
            art == backup_file_name(h, p, t)
        IN  /\ os_path_join(get_paths(p).target_path, art) \in fs
            /\ os_path_join(get_paths(p).target_path, StrJoin(art, LOG_SUFFIX)) \in fs
            /\ os_path_join(get_paths(p).temp_path, art) \notin fs
            /\ os_path_join(get_paths(p).temp_path, StrJoin(art, LOG_SUFFIX)) \notin fs

\* A successful run that leaves its log in the scratch directory.
C2_Reached ==
    /\ bk.status = "ok"
    /\ tmp_log_of(bk.call.hostname, bk.call.port, bk.call.timestamp) \in fs

(***************************************************************************)
(* innobackup_decompress, apply_log                                        *)
(***************************************************************************)
ExitStatuses == {0, 1}

\* line 295: decompress.wait() != 0
decompress_exit_failed_never(rc) == FALSE

decompress_exit_failed(rc) == rc # 0

\* line 328: apply_logs.wait() != 0
apply_logs_exit_failed(rc) == rc # 0

\* lines 301 and 334: the check of the stage's log
log_data_check(log_data) == MarkerCheck(log_data)

\* rc: the exit status of innobackupex --decompress; log_data: what it wrote
\* to xtrabackup-decompress.err
innobackup_decompress(rc, log_data) ==
    /\ pp' = [stage |-> "decompress", rc |-> rc, log_data |-> log_data,
              status |-> IF decompress_exit_failed(rc) THEN "Exception"
                         ELSE log_data_check(log_data)]
    /\ UNCHANGED <<fs, bk, dir, rm, store, loc, ledger, nextId, tableExists, rl, rep, unp>>

\* rc: the exit status of innobackupex --apply-log; log_data: what it wrote
\* to xtrabackup-apply-logs.log
apply_log(rc, log_data) ==
    /\ pp' = [stage |-> "apply_log", rc |-> rc, log_data |-> log_data,
              status |-> IF apply_logs_exit_failed(rc) THEN "Exception"
                         ELSE log_data_check(log_data)]
    /\ UNCHANGED <<fs, bk, dir, rm, store, loc, ledger, nextId, tableExists, rl, rep, unp>>

Init_Post ==
    /\ pp = [status |-> "none"]
    /\ rep = [status |-> "none"] /\ unp = [status |-> "none"]
    /\ fs = {} /\ bk = NoBackup
    /\ dir = <<>> /\ rm = [status |-> "none"]
    /\ store = <<>> /\ loc = [status |-> "none"]
    /\ ledger = {} /\ nextId = 1 /\ tableExists = FALSE /\ rl = [op |-> "none"]

\* One stage, on each exit status and log
Next_Post ==
    \/ /\ pp.status = "none"
       /\ \E rc \in ExitStatuses, log_data \in Logs :
             innobackup_decompress(rc, log_data)
    \/ /\ pp.status = "none"
       /\ \E rc \in ExitStatuses, log_data \in Logs :
             apply_log(rc, log_data)

SpecPost == Init_Post /\ [][Next_Post]_vars

\* C10: the decompress stage and the apply-log stage each succeed exactly when
\* the tool's exit status is zero and the last line of the stage's log contains
\* the success marker; a non-zero exit status fails, and a zero exit status with
\* the marker missing from the last line (an empty log included) fails.
C10_StageSucceedsOnlyWithZeroExitAndMarker ==
    pp.status # "none" =>
        /\ pp.stage \in {"decompress", "apply_log"}
        /\ pp.status = "ok" <=> (pp.rc = 0 /\ LastLineHasMarker(pp.log_data))
        /\ pp.status # "ok" => pp.status \in {"Exception", "IndexError"}

\* Each stage has failed on a zero exit status with the marker on an earlier
\* line only; this is the decompress one.
C10_Witness ==
    /\ pp.status = "Exception"
    /\ pp.stage = "decompress"
    /\ pp.rc = 0
    /\ Len(pp.log_data) = 2
    /\ StrIn(MARKER, pp.log_data[1])

(***************************************************************************)
(* remove_backups                                                          *)
(***************************************************************************)
SQL_SUFFIX == <<".sql.gz">>

BackupDates == <<"2014-06-01", "2014-06-02", "2014-06-03", "2014-06-04",
                 "2014-06-05", "2014-06-06">>

\* The entries backup_path may hold: xbstream backups, one backup with
\* another extension, and the '.log' companions of the xbstream backups.
XbEntry(i) == <<"mysql-db001-3306-", BackupDates[i]>> \o XBSTREAM_SUFFIX
XbEntries == {XbEntry(i) : i \in 1..NumBackups}
SqlEntry == <<"mysql-db001-3306-", BackupDates[1]>> \o SQL_SUFFIX
LogEntries == {StrJoin(e, LOG_SUFFIX) : e \in XbEntries}

\* The extension tuples a caller passes
ExtensionGroups ==
    {<<XBSTREAM_SUFFIX>>, <<SQL_SUFFIX>>, <<XBSTREAM_SUFFIX, SQL_SUFFIX>>}

\* The order of str on the pieces that differ between two entries
PieceRank(piece) ==
    CASE piece = ".log" -> 1
      [] piece = ".sql.gz" -> 2
      [] piece = ".xbstream" -> 3
      [] piece = "db001" -> 1
      [] piece = "db002" -> 2
      [] \E i \in 1..Len(BackupDates) : BackupDates[i] = piece ->
            3 + (CHOOSE i \in 1..Len(BackupDates) : BackupDates[i] = piece)
      [] OTHER -> 0

\* a < b on str
RECURSIVE StrLess(_, _)
StrLess(a, b) ==
    IF Len(b) = 0 THEN FALSE
    ELSE IF Len(a) = 0 THEN TRUE
    ELSE IF Head(a) = Head(b) THEN StrLess(Tail(a), Tail(b))
    ELSE PieceRank(Head(a)) < PieceRank(Head(b))

\* entry.endswith(extension), extension a tuple
EndsWithAny(entry, extension) ==
    \E i \in 1..Len(extension) : EndsWith(entry, extension[i])

\* (mtime, fullpath) tuples compare by mtime, then by fullpath
TupleLess(x, y) ==
    \/ x[1] < y[1]
    \/ x[1] = y[1] /\ StrLess(x[2], y[2])

TupleGreater(x, y) == TupleLess(y, x)

\* the order files.sort() puts first
SortsBefore(x, y) == TupleLess(x, y)

\* files.sort()
RECURSIVE Sorted(_)
Sorted(S) ==
    IF S = {} THEN <<>>
    ELSE LET first == CHOOSE x \in S : \A y \in S \ {x} : SortsBefore(x, y)
         IN  <<first>> \o Sorted(S \ {first})

\* lines 146-151
ListFiles(d, backup_path, extension) ==
    Sorted({<<d[entry], os_path_join(backup_path, entry)>> :
              entry \in {e \in DOMAIN d : EndsWithAny(e, extension)}})

\* line 153
to_delete_count(n, keep_newest) ==
    IF n - keep_newest > 0 THEN n - keep_newest ELSE 0

\* os.remove(path) on the directory, keyed by full path
Without(files, path) == [f \in (DOMAIN files) \ {path} |-> files[f]]

\* lines 154-161: the loop over files[:to_delete]; os.remove of a path that
\* is gone raises OSError and ends the call
RECURSIVE RemoveLoop(_, _)
RemoveLoop(entries, files) ==
    IF Len(entries) = 0 THEN [status |-> "ok", files |-> files]
    ELSE LET path == Head(entries)[2]
             log_file == StrJoin(path, LOG_SUFFIX)
         IN  IF path \notin DOMAIN files
             THEN [status |-> "OSError", files |-> files]
             ELSE LET removed == Without(files, path)
                  IN  RemoveLoop(Tail(entries),
                                 IF log_file \in DOMAIN removed
                                 THEN Without(removed, log_file)
                                 ELSE removed)

BACKUP_PATH == os_path_join(TARGET_DIR, <<"3306">>)

\* dir maps the entries of backup_path to their st_mtime
FullPaths(d, backup_path) ==
    [path \in {os_path_join(backup_path, e) : e \in DOMAIN d} |->
        d[SubSeq(path, Len(backup_path) + 2, Len(path))]]

Entries(files, backup_path) ==
    [e \in {SubSeq(path, Len(backup_path) + 2, Len(path)) : path \in DOMAIN files} |->
        files[os_path_join(backup_path, e)]]

remove_backups(backup_path, extension, keep_newest) ==
    LET files == ListFiles(dir, backup_path, extension)
        to_delete == to_delete_count(Len(files), keep_newest)
        done == RemoveLoop(SubSeq(files, 1, to_delete), FullPaths(dir, backup_path))
    IN  /\ dir' = Entries(done.files, backup_path)
        /\ rm' = [status |-> done.status, extension |-> extension,
                  keep_newest |-> keep_newest, before |-> dir]
        /\ UNCHANGED <<fs, bk, store, loc, ledger, nextId, tableExists, rl, pp, rep, unp>>

\* Every directory over the entries above; a companion log's mtime is not read
Directories ==
    UNION {{[e \in present |-> IF e \in LogEntries THEN 1 ELSE m[e]] :
             m \in [present \ LogEntries -> 1..MaxMtime]} :
           present \in SUBSET (XbEntries \cup {SqlEntry} \cup LogEntries)}

Init_Retention ==
    /\ dir \in Directories
    /\ rm = [status |-> "none"]
    /\ fs = {} /\ bk = NoBackup
    /\ store = <<>> /\ loc = [status |-> "none"]
    /\ ledger = {} /\ nextId = 1 /\ tableExists = FALSE /\ rl = [op |-> "none"]
    /\ pp = [status |-> "none"]
    /\ rep = [status |-> "none"] /\ unp = [status |-> "none"]

\* One call, on each of the initial directories
Next_Retention ==
    /\ rm.status = "none"
    /\ \E extension \in ExtensionGroups, keep_newest \in 0..(NumBackups + 1) :
        remove_backups(BACKUP_PATH, extension, keep_newest)

SpecRetention == Init_Retention /\ [][Next_Retention]_vars

Matching(d, extension) == {e \in DOMAIN d : EndsWithAny(e, extension)}

DistinctMtimes(d, S) == \A e1, e2 \in S : e1 # e2 => d[e1] # d[e2]

\* The files of S with at least k files of S modified later
AllButNewest(d, S, k) ==
    {e \in S : Cardinality({g \in S : d[g] > d[e]}) >= k}

\* C3: with N matching files of distinct modification times and
\* keep_newest = k < N, remove_backups does not fail, removes exactly the N-k
\* oldest matching files and the '.log' companion of each removed file that has
\* one, and leaves every other entry (the k newest and their companions
\* included) in place with its modification time.
C3_RemovesExactlyOldest ==
    LET before == rm.before
        M == Matching(before, rm.extension)
        gone == AllButNewest(before, M, rm.keep_newest)
        companions == {StrJoin(e, LOG_SUFFIX) : e \in gone}
    IN  (/\ rm.status # "none"
         /\ rm.keep_newest < Cardinality(M)
         /\ DistinctMtimes(before, M)) =>
            /\ rm.status = "ok"
            /\ Cardinality(gone) = Cardinality(M) - rm.keep_newest
            /\ DOMAIN dir = (DOMAIN before) \ (gone \cup companions)
            /\ \A e \in DOMAIN dir : dir[e] = before[e]

\* Three matching files, one kept: of the two removed, one had a companion log
\* and one had none, and the kept file's companion log is still there.
C3_Witness ==
    LET before == rm.before
        M == Matching(before, rm.extension)
        gone == AllButNewest(before, M, rm.keep_newest)
    IN  /\ rm.status = "ok"
        /\ Cardinality(M) = 3
        /\ rm.keep_newest = 1
        /\ DistinctMtimes(before, M)
        /\ \E e \in gone : StrJoin(e, LOG_SUFFIX) \in DOMAIN before
        /\ \E e \in gone : StrJoin(e, LOG_SUFFIX) \notin DOMAIN before
        /\ \E e \in M \ gone : StrJoin(e, LOG_SUFFIX) \in DOMAIN dir

(***************************************************************************)
(* get_s3_backup, get_remote_backup                                        *)
(***************************************************************************)
MINIMUM_VALID_BACKUP_SIZE_BYTES == 1048576

\* Python values: an int, and a str holding the decimal digits of a number
PyInt(n) == [type |-> "int", v |-> n]
PyStr(n) == [type |-> "str", v |-> n]

\* a < b in CPython 2: values of one type by value; an int is smaller than
\* any str
py2_less(a, b) ==
    IF a.type = b.type THEN a.v < b.v
    ELSE a.type = "int" /\ b.type = "str"

py2_greater(a, b) == py2_less(b, a)

\* s.startswith(prefix)
StartsWith(s, prefix) ==
    /\ Len(prefix) <= Len(s)
    /\ SubSeq(s, 1, Len(prefix)) = prefix

Dates == {"2014-06-05", "2014-06-06"}

\* mysql-<host>-<port>-<YYYY-MM-DD>-<HH:MM:SS><suffix>
ArtifactName(hostname, port, date, suffix) ==
    <<"mysql-", hostname, "-", port, "-", date, "-", "00:00:00">> \o suffix

\* The names an artifact in the bucket or on the remote host may have
StoreNames ==
    {ArtifactName("db001", "3306", "2014-06-05", XBSTREAM_SUFFIX),
     ArtifactName("db001", "3306", "2014-06-06", XBSTREAM_SUFFIX),
     ArtifactName("db002", "3306", "2014-06-06", XBSTREAM_SUFFIX),
     ArtifactName("db001", "3306", "2014-06-06", SQL_SUFFIX)}

Sizes ==
    {MINIMUM_VALID_BACKUP_SIZE_BYTES - 1, MINIMUM_VALID_BACKUP_SIZE_BYTES,
     MINIMUM_VALID_BACKUP_SIZE_BYTES + 1}

\* store: name -> [size, last_modified]
Stores ==
    UNION {[present -> [size : Sizes, last_modified : 1..MaxMtime]] :
           present \in SUBSET StoreNames}

NoDate == "None"

\* lines 426-429
s3_prefix(hostname, port, date) ==
    IF date # NoDate
    THEN StrJoin(<<"mysql-", hostname, "-", port>>, <<"-", date>>)
    ELSE <<"mysql-", hostname, "-", port>>

\* bucket.get_all_keys(prefix=prefix): the keys with the prefix, in key order
bucket_get_all_keys(prefix) ==
    Sorted({<<0, name>> : name \in {n \in DOMAIN store : StartsWith(n, prefix)}})

\* line 451
s3_elem_valid(name) ==
    /\ StrIn(XBSTREAM_SUFFIX, name)
    /\ py2_greater(PyInt(store[name].size), PyInt(MINIMUM_VALID_BACKUP_SIZE_BYTES))

\* lines 448-453: latest_backup after the loop over bucket_items
RECURSIVE s3_latest(_, _)
s3_latest(bucket_items, latest_backup) ==
    IF Len(bucket_items) = 0 THEN latest_backup
    ELSE LET elem == Head(bucket_items)[2]
         IN  s3_latest(Tail(bucket_items),
                 IF /\ s3_elem_valid(elem)
                    /\ \/ latest_backup = <<>>
                       \/ store[elem].last_modified > store[latest_backup].last_modified
                 THEN elem
                 ELSE latest_backup)

\* conn: "ambient" when the first connection lists the keys, "role" when only
\* the retry with the instance role's credentials does, "none" when neither
get_s3_backup(hostname, port, date, conn) ==
    LET prefix == s3_prefix(hostname, port, date)
        latest_backup == s3_latest(bucket_get_all_keys(prefix), <<>>)
        call == [variant |-> "s3", hostname |-> hostname, port |-> port,
                 date |-> date, conn |-> conn]
    IN  /\ loc' = IF conn = "none"
                  THEN [status |-> "error", error |-> "S3Error", call |-> call]
                  ELSE IF latest_backup = <<>>
                  THEN [status |-> "error", error |-> "UnableToFindValidBackup",
                        call |-> call]
                  ELSE [status |-> "found", name |-> latest_backup,
                        size |-> PyInt(store[latest_backup].size), call |-> call]
        /\ UNCHANGED <<fs, bk, dir, rm, store, ledger, nextId, tableExists, rl, pp, rep, unp>>

\* The files /backup/mysql/<port>/*<date>*.xbstream on the host: the backups
\* a host keeps are named after it (line 177)
remote_glob(hostname, port, date) ==
    {n \in DOMAIN store :
        /\ StartsWith(n, <<"mysql-", hostname, "-", port>>)
        /\ EndsWith(n, XBSTREAM_SUFFIX)
        /\ date # NoDate => StrIn(<<date>>, n)}

\* ls -t: newest first, equal times by name
LsBefore(x, y) ==
    \/ store[x].last_modified > store[y].last_modified
    \/ store[x].last_modified = store[y].last_modified /\ StrLess(x, y)

\* one line of ls -l
LsLine(path, name) ==
    <<"-rw-r--r--", "1", "root", "root", PyStr(store[name].size),
      "Jun", "6", "00:00", os_path_join(path, name)>>

\* lines 351-366: stdout of "ls -tl <path>/*<date>*.xbstream | head -n1",
\* already split on whitespace
remote_out(hostname, port, date) ==
    LET files == remote_glob(hostname, port, date)
        path == os_path_join(TARGET_DIR, <<port>>)
    IN  IF files = {} THEN <<>>
        ELSE LsLine(path, CHOOSE x \in files : \A y \in files \ {x} : LsBefore(x, y))

\* line 380
remote_too_small(size) ==
    py2_less(size, PyInt(MINIMUM_VALID_BACKUP_SIZE_BYTES))

get_remote_backup(hostname, port, date) ==
    LET entries == remote_out(hostname, port, date)
        call == [variant |-> "remote_server", hostname |-> hostname,
                 port |-> port, date |-> date, conn |-> "ssh"]
    IN  /\ loc' = IF Len(entries) = 0
                  THEN [status |-> "error", error |-> "NoBackupFound", call |-> call]
                  ELSE IF remote_too_small(entries[5])
                  THEN [status |-> "error", error |-> "TooSmall", call |-> call]
                  ELSE [status |-> "found", name |-> entries[9],
                        size |-> entries[5], call |-> call]
        /\ UNCHANGED <<fs, bk, dir, rm, store, ledger, nextId, tableExists, rl, pp, rep, unp>>

Init_Locate ==
    /\ store \in Stores
    /\ loc = [status |-> "none"]
    /\ fs = {} /\ bk = NoBackup
    /\ dir = <<>> /\ rm = [status |-> "none"]
    /\ ledger = {} /\ nextId = 1 /\ tableExists = FALSE /\ rl = [op |-> "none"]
    /\ pp = [status |-> "none"]
    /\ rep = [status |-> "none"] /\ unp = [status |-> "none"]

\* One lookup, on each of the initial stores
Next_Locate ==
    \/ /\ loc.status = "none"
       /\ \E hostname \in Hosts, port \in Ports, date \in Dates \cup {NoDate},
             conn \in {"ambient", "role", "none"} :
             get_s3_backup(hostname, port, date, conn)
    \/ /\ loc.status = "none"
       /\ \E hostname \in Hosts, port \in Ports, date \in Dates \cup {NoDate} :
             get_remote_backup(hostname, port, date)

SpecLocate == Init_Locate /\ [][Next_Locate]_vars

\* The artifacts a lookup is about: the xbstream files of the host and port,
\* and of the date when one is given
Candidates(call) ==
    {n \in DOMAIN store :
        /\ StartsWith(n, <<"mysql-", call.hostname, "-", call.port>>)
        /\ EndsWith(n, XBSTREAM_SUFFIX)
        /\ call.date # NoDate => n[6] = call.date}

\* C4: for the s3 and the remote-server variant alike, a lookup never returns
\* an artifact whose size is below 1,048,576 bytes, whatever the candidates
\* are and also when the undersized artifact is the newest one.
C4_NeverReturnsUndersized ==
    loc.status = "found" => loc.size.v >= MINIMUM_VALID_BACKUP_SIZE_BYTES

\* C5: a lookup with no candidate fails with a not-found error, a lookup
\* whose candidates are all under the minimum size fails with a too-small
\* error, and the two errors differ.
C5_NotFoundAndTooSmallDistinct ==
    (loc.status # "none" /\ loc.call.conn # "none") =>
        /\ Candidates(loc.call) = {} =>
              /\ loc.status = "error"
              /\ loc.error \in {"NoBackupFound", "UnableToFindValidBackup"}
        /\ (/\ Candidates(loc.call) # {}
            /\ \A n \in Candidates(loc.call) :
                  store[n].size < MINIMUM_VALID_BACKUP_SIZE_BYTES) =>
              /\ loc.status = "error"
              /\ loc.error = "TooSmall"

(***************************************************************************)
(* start_restore_log, update_restore_log, create_status_table              *)
(***************************************************************************)
NULL == "NULL"
\* row_id = None
None == 0
\* NOW(): a DATETIME, not NULL
NOW == "NOW()"

Statuses == {"OK", "IPR", "BAD"}

\* line 35: restore_status ENUM('OK', 'IPR', 'BAD') DEFAULT 'IPR'
restore_status_default == "IPR"

\* The params a restore passes to start_restore_log
StartParams ==
    [restore_source |-> "db001", restore_type |-> "s3",
     restore_file |-> "db001.xbstream",
     source_instance |-> "db003:3306", restore_date |-> "2014-06-06",
     restore_port |-> "3306", replication |-> "REQ", zookeeper |-> "REQ"]

\* lines 477-487: the row REPLACE INTO ... SET inserts; the columns it does not
\* set take their defaults (lines 22-39)
InsertedRow(id, params) ==
    [id |-> id,
     restore_source |-> params.restore_source,
     restore_type |-> params.restore_type,
     test_restore |-> "normal",
     restore_destination |-> params.source_instance,
     restore_date |-> params.restore_date,
     restore_port |-> params.restore_port,
     restore_file |-> params.restore_file,
     replication |-> params.replication,
     zookeeper |-> params.zookeeper,
     started_at |-> NOW,
     finished_at |-> NULL,
     restore_status |-> restore_status_default,
     status_message |-> NULL]

\* connected: mysql_lib.connect_mysql returned; createOk: the CREATE TABLE of
\* create_status_table ran; execOk: the server accepted the REPLACE
start_restore_log(connected, createOk, execOk, params) ==
    LET exists == tableExists \/ createOk
        inserted == exists /\ execOk
        row_id == IF inserted THEN nextId ELSE None
        call == [op |-> "start", connected |-> connected, params |-> params,
                 raised |-> FALSE]
    IN  /\ nextId <= MaxRows
        /\ IF ~connected
           THEN /\ rl' = call @@ [row_id |-> None]
                /\ UNCHANGED <<ledger, nextId, tableExists>>
           ELSE /\ tableExists' = exists
                /\ ledger' = IF inserted
                             THEN {r \in ledger : r.id # row_id}
                                      \cup {InsertedRow(row_id, params)}
                             ELSE ledger
                /\ nextId' = IF inserted THEN nextId + 1 ELSE nextId
                /\ rl' = call @@ [row_id |-> row_id]
        /\ UNCHANGED <<fs, bk, dir, rm, store, loc, pp, rep, unp>>

\* lines 512-525: the columns of the SET clause, in order
updates_fields_no_finished_at(params) ==
    (IF "restore_status" \in DOMAIN params THEN <<"restore_status">> ELSE <<>>)
    \o (IF "status_message" \in DOMAIN params THEN <<"status_message">> ELSE <<>>)
    \o (IF "replication" \in DOMAIN params THEN <<"replication">> ELSE <<>>)
    \o (IF "zookeeper" \in DOMAIN params THEN <<"zookeeper">> ELSE <<>>)

updates_fields(params) ==
    (IF "finished_at" \in DOMAIN params THEN <<"finished_at">> ELSE <<>>)
    \o (IF "restore_status" \in DOMAIN params THEN <<"restore_status">> ELSE <<>>)
    \o (IF "status_message" \in DOMAIN params THEN <<"status_message">> ELSE <<>>)
    \o (IF "replication" \in DOMAIN params THEN <<"replication">> ELSE <<>>)
    \o (IF "zookeeper" \in DOMAIN params THEN <<"zookeeper">> ELSE <<>>)
    \o (IF "finished_at" \in DOMAIN params THEN <<"finished_at">> ELSE <<>>)

\* SET col = ..., left to right: finished_at=NOW(), any other col=%(col)s
RECURSIVE SetColumns(_, _, _)
SetColumns(row, fields, params) ==
    IF Len(fields) = 0 THEN row
    ELSE LET col == Head(fields)
             val == IF col = "finished_at" THEN NOW ELSE params[col]
         IN  SetColumns([row EXCEPT ![col] = val], Tail(fields), params)

\* WHERE id = %(row_id)s; id = NULL holds of no row
where_id_any(row, row_id) == TRUE

where_id(row, row_id) == row_id # None /\ row.id = row_id

\* lines 527-532: "UPDATE ... SET  WHERE ..." with an empty SET clause is
\* a syntax error, and an UPDATE of a table that does not exist is an error:
\* cursor.execute raises
update_raises(fields) == Len(fields) = 0 \/ ~tableExists

update_restore_log(connected, row_id, params) ==
    LET fields == updates_fields(params)
        call == [op |-> "update", connected |-> connected, params |-> params,
                 row_id |-> row_id]
    IN  /\ IF ~connected
           THEN /\ rl' = call @@ [raised |-> FALSE]
                /\ UNCHANGED ledger
           ELSE IF update_raises(fields)
           THEN /\ rl' = call @@ [raised |-> TRUE]
                /\ UNCHANGED ledger
           ELSE /\ rl' = call @@ [raised |-> FALSE]
                /\ ledger' = {IF where_id(r, row_id)
                              THEN SetColumns(r, fields, params)
                              ELSE r : r \in ledger}
        /\ UNCHANGED <<nextId, tableExists>>
        /\ UNCHANGED <<fs, bk, dir, rm, store, loc, pp, rep, unp>>

RecognizedFields ==
    {"finished_at", "restore_status", "status_message", "replication", "zookeeper"}

\* The field names a caller supplies
FieldSets ==
    {{}, {"bogus"}, {"finished_at"}, {"restore_status"},
     {"restore_status", "finished_at"},
     {"status_message", "replication", "zookeeper"}}

ParamsOver(fields, status) ==
    [f \in fields |->
        CASE f = "restore_status" -> status
          [] f = "finished_at" -> "True"
          [] f = "status_message" -> "restore finished"
          [] f \in {"replication", "zookeeper"} -> "OK"
          [] OTHER -> "x"]

UpdateParams ==
    {ParamsOver(F, st) : F \in FieldSets, st \in Statuses}
        \cup {ParamsOver(RecognizedFields \cup {"bogus"}, "BAD")}

Init_Ledger ==
    /\ ledger = {} /\ nextId = 1 /\ tableExists \in BOOLEAN
    /\ rl = [op |-> "none"]
    /\ fs = {} /\ bk = NoBackup
    /\ dir = <<>> /\ rm = [status |-> "none"]
    /\ store = <<>> /\ loc = [status |-> "none"]
    /\ pp = [status |-> "none"]
    /\ rep = [status |-> "none"] /\ unp = [status |-> "none"]

Next_Ledger ==
    \/ \E connected \in BOOLEAN, createOk \in BOOLEAN, execOk \in BOOLEAN :
          start_restore_log(connected, createOk, execOk, StartParams)
    \/ \E connected \in BOOLEAN, row_id \in {None} \cup 1..MaxRows,
          params \in UpdateParams :
          update_restore_log(connected, row_id, params)

SpecLedger == Init_Ledger /\ [][Next_Ledger]_vars

RowsWithId(id) == {r \in ledger : r.id = id}

\* C6: a start_restore_log that returns a row id has inserted one row with that
\* id, outcome 'IPR' and a start time; an update_restore_log that reaches the
\* server for a row id start_restore_log returned, supplying restore_status
\* 'OK' and finished_at, raises nothing and leaves exactly one row with that id,
\* with outcome 'OK' and a finish time that is not NULL.
C6_StartThenUpdateOK ==
    /\ (rl.op = "start" /\ rl.row_id # None) =>
          /\ Cardinality(RowsWithId(rl.row_id)) = 1
          /\ \A r \in RowsWithId(rl.row_id) :
                /\ r.restore_status = "IPR"
                /\ r.started_at # NULL
                /\ r.finished_at = NULL
    /\ (/\ rl.op = "update"
        /\ rl.connected
        /\ rl.row_id \in 1..(nextId - 1)
        /\ {"restore_status", "finished_at"} \subseteq DOMAIN rl.params
        /\ rl.params["restore_status"] = "OK") =>
          /\ ~rl.raised
          /\ Cardinality(RowsWithId(rl.row_id)) = 1
          /\ \A r \in RowsWithId(rl.row_id) :
                /\ r.restore_status = "OK"
                /\ r.finished_at # NULL
                /\ r.started_at # NULL

\* The second of two jobs started has been updated with exactly
\* {restore_status: 'OK', finished_at} while the first is still in progress.
C6_Witness ==
    /\ rl.op = "update"
    /\ rl.connected
    /\ rl.row_id = 2
    /\ DOMAIN rl.params = {"restore_status", "finished_at"}
    /\ rl.params["restore_status"] = "OK"
    /\ \E r \in ledger : r.id = 2 /\ r.restore_status = "OK" /\ r.finished_at = NOW
    /\ \E r \in ledger : r.id = 1 /\ r.restore_status = "IPR"

\* C7: an update_restore_log that reaches the server raises nothing, whatever
\* field names are supplied (unrecognized names only, included), and sets no
\* column but the recognized ones supplied.
C7_UnrecognizedFieldsIgnored ==
    [][\A connected \in BOOLEAN, row_id \in {None} \cup 1..MaxRows,
          params \in UpdateParams :
          (tableExists /\ update_restore_log(connected, row_id, params)) =>
             /\ ~rl'.raised
             /\ \A r \in ledger : \E r2 \in ledger' :
                   /\ r2.id = r.id
                   /\ \A col \in (DOMAIN r) \ (RecognizedFields \cap DOMAIN params) :
                         r2[col] = r[col]]_vars

\* C8: an update_restore_log called with no row id raises nothing and changes
\* no ledger row, with the connection available or not.
C8_UpdateWithoutRowIdIsNoOp ==
    [][\A connected \in BOOLEAN, params \in UpdateParams :
          update_restore_log(connected, None, params) =>
             /\ ~rl'.raised
             /\ ledger' = ledger]_vars

\* C9 as stated: once a row's outcome is OK or BAD, no later call changes it.
C9_TerminalOutcomeNeverChanges ==
    [][\A r \in ledger :
          r.restore_status \in {"OK", "BAD"} =>
             \E r2 \in ledger' : r2.id = r.id /\ r2.restore_status = r.restore_status]_vars

\* C9 (amended): a row is created with outcome 'IPR' and is never removed; its
\* outcome changes only in an update_restore_log call on its row id that
\* supplies restore_status, and becomes the value supplied.
C9_OutcomeChangesOnlyByUpdate ==
    [][/\ \A r2 \in ledger' :
             (\A r \in ledger : r.id # r2.id) => r2.restore_status = "IPR"
       /\ \A r \in ledger : \E r2 \in ledger' :
             /\ r2.id = r.id
             /\ r2.restore_status # r.restore_status =>
                   /\ rl'.op = "update"
                   /\ rl'.row_id = r.id
                   /\ "restore_status" \in DOMAIN rl'.params
                   /\ r2.restore_status = rl'.params["restore_status"]]_vars

\* A finished row (it has a finish time) whose outcome the last call has set
\* back to 'IPR', beside a row the call has left alone.
C9_Witness ==
    /\ rl.op = "update"
    /\ ~rl.raised
    /\ DOMAIN rl.params = {"restore_status"}
    /\ rl.params["restore_status"] = "IPR"
    /\ \E r \in ledger :
          r.id = rl.row_id /\ r.restore_status = "IPR" /\ r.finished_at # NULL
    /\ \E r \in ledger : r.id # rl.row_id /\ r.restore_status = "BAD"

(***************************************************************************)
(* quick_test_replication                                                  *)
(***************************************************************************)
\* SHOW SLAVE STATUS: the values of Slave_IO_Running and Slave_SQL_Running
IoRunningValues == {"Yes", "No", "Connecting"}
SqlRunningValues == {"Yes", "No"}
ErrorTexts == {"", "error 1236"}

\* What mysql_lib.get_slave_status(conn) returns at one moment
SlaveStatuses ==
    [Slave_IO_Running : IoRunningValues, Slave_SQL_Running : SqlRunningValues,
     Last_IO_Error : ErrorTexts, Last_SQL_Error : ErrorTexts]

\* The slave status at the successive moments it could be read after
\* START SLAVE and the sleep
StatusHistories == UNION {[1..k -> SlaveStatuses] : k \in 1..MaxPolls}

\* line 563: the one status the function reads
ss_read_last(history) == history[Len(history)]

ss_read(history) == history[1]

\* lines 564-569
quick_test_replication(history) ==
    LET ss == ss_read(history)
        call == [history |-> history, reads |-> 1]
    IN  /\ rep' = IF ss.Slave_IO_Running = "No"
                  THEN [status |-> "Exception", thread |-> "IO THREAD",
                        e |-> ss.Last_IO_Error, call |-> call]
                  ELSE IF ss.Slave_SQL_Running = "No"
                  THEN [status |-> "Exception", thread |-> "SQL THREAD",
                        e |-> ss.Last_SQL_Error, call |-> call]
                  ELSE [status |-> "ok", call |-> call]
        /\ UNCHANGED <<fs, bk, dir, rm, store, loc, ledger, nextId, tableExists,
                       rl, pp, unp>>

Init_Replication ==
    /\ rep = [status |-> "none"] /\ unp = [status |-> "none"]
    /\ fs = {} /\ bk = NoBackup
    /\ dir = <<>> /\ rm = [status |-> "none"]
    /\ store = <<>> /\ loc = [status |-> "none"]
    /\ ledger = {} /\ nextId = 1 /\ tableExists = FALSE /\ rl = [op |-> "none"]
    /\ pp = [status |-> "none"]

\* One call, on each history of the slave status
Next_Replication ==
    /\ rep.status = "none"
    /\ \E history \in StatusHistories : quick_test_replication(history)

SpecReplication == Init_Replication /\ [][Next_Replication]_vars

\* C11 as stated: the call succeeds only when both threads report 'Yes' at the
\* one read, and fails for every other value of either.
C11_FailsUnlessBothRunning ==
    rep.status # "none" =>
        (rep.status = "ok" <=>
            /\ rep.call.history[1].Slave_IO_Running = "Yes"
            /\ rep.call.history[1].Slave_SQL_Running = "Yes")

\* C11 (amended): the call reads the slave status once, the first status after
\* START SLAVE, whatever the status becomes later; it fails for the I/O thread
\* with Last_IO_Error when Slave_IO_Running is 'No', else for the SQL thread
\* with Last_SQL_Error when Slave_SQL_Running is 'No', and succeeds for every
\* other value, 'Connecting' included.
C11_FailsOnlyOnNo ==
    rep.status # "none" =>
        LET first == rep.call.history[1]
        IN  /\ rep.call.reads = 1
            /\ first.Slave_IO_Running = "No" =>
                  /\ rep.status = "Exception"
                  /\ rep.thread = "IO THREAD"
                  /\ rep.e = first.Last_IO_Error
            /\ (first.Slave_IO_Running # "No" /\ first.Slave_SQL_Running = "No") =>
                  /\ rep.status = "Exception"
                  /\ rep.thread = "SQL THREAD"
                  /\ rep.e = first.Last_SQL_Error
            /\ (first.Slave_IO_Running # "No" /\ first.Slave_SQL_Running # "No") =>
                  rep.status = "ok"

\* The call has succeeded on an I/O thread that was still 'Connecting' at the
\* read and stopped later.
C11_Witness ==
    /\ rep.status = "ok"
    /\ Len(rep.call.history) = 2
    /\ rep.call.history[1].Slave_IO_Running = "Connecting"
    /\ rep.call.history[2].Slave_IO_Running = "No"

(***************************************************************************)
(* xbstream_unpack                                                         *)
(***************************************************************************)
PV == <<"/usr/bin/pv", "-peafbt">>
S3_SCRIPT == <<"/usr/local/bin/gof3r">>

\* The restore types callers pass, and two the function does not know
RestoreTypes == {"s3", "local_file", "remote_server", "localhost", "tape"}

\* size=None, or an int
PyNone == [type |-> "NoneType"]
UnpackSizes == {PyNone} \cup {PyInt(n) : n \in 0..MaxSize}

\* "if size": None and 0 are false
truthy(size) == size.type = "int" /\ size.v # 0

\* The xbstream paths: a path as the sequence of its pieces
Xbstreams ==
    {os_path_join(get_paths(port).target_path,
                  backup_file_name(h, port, "2014-06-05-00:00:00")) :
        h \in Hosts, port \in Ports}

\* host_utils.get_cnf_setting('datadir', port)
Datadirs == {<<"/raid0/mysql/", "3306", "/data">>, <<"/var/lib/mysql">>}

\* urllib.quote_plus: '/' becomes '%2F', ':' becomes '%3A'; letters, digits
\* and '_.-' stay
quote_piece(c) ==
    CASE c = "/" -> "%2F"
      [] c = "/backup/mysql" -> "%2Fbackup%2Fmysql"
      [] c = "2014-06-05-00:00:00" -> "2014-06-05-00%3A00%3A00"
      [] OTHER -> c

quote_plus(path) == [i \in 1..Len(path) |-> quote_piece(path[i])]

\* lines 237-253: the source stage, <<>> for a restore type that is not
\* supported
source_stage(xbstream, hostname, restore_type) ==
    CASE restore_type = "s3" ->
            S3_SCRIPT \o <<"get", "--no-md5", "-b", "S3_BUCKET", "-k">>
                \o quote_plus(xbstream) \o <<"2>/dev/null">>
      [] restore_type = "local_file" -> PV \o xbstream
      [] restore_type = "remote_server" ->
            <<"ssh", "SSH_OPTIONS", "SSH_AUTH", "@", hostname, "'/bin/cat">>
                \o xbstream \o <<"'">>
      [] OTHER -> <<>>

\* lines 258-259: str(size)
meter_stage(size) == PV \o <<"-s", ToString(size.v)>>

\* line 261
extract_stage(datadir) == <<"/usr/bin/xbstream", "-x", "-C">> \o datadir

\* line 257
meter_wanted_not_local(size, restore_type) ==
    truthy(size) /\ restore_type # "local_file"

meter_wanted(size, restore_type) == truthy(size) /\ restore_type # "localhost"

\* lines 237-261: cmd, as the sequence of the stages joined by ' | '
build_cmd(xbstream, hostname, restore_type, size, datadir) ==
    LET cmd0 == <<source_stage(xbstream, hostname, restore_type)>>
        cmd1 == IF meter_wanted(size, restore_type)
                THEN Append(cmd0, meter_stage(size))
                ELSE cmd0
    IN  Append(cmd1, extract_stage(datadir))

\* extract.wait() of Popen(cmd, shell=True): /bin/sh gives the pipeline the
\* exit status of its last command
pipeline_status_pipefail(exits) ==
    IF \E i \in 1..Len(exits) : exits[i] # 0 THEN 1 ELSE 0

pipeline_status(exits) == exits[Len(exits)]

\* lines 224-266; exits are the exit statuses of the stages, in order
xbstream_unpack(xbstream, hostname, restore_type, size, datadir, exits) ==
    LET call == [xbstream |-> xbstream, hostname |-> hostname,
                 restore_type |-> restore_type, size |-> size,
                 datadir |-> datadir]
        cmd == build_cmd(xbstream, hostname, restore_type, size, datadir)
    IN  /\ unp' =
              IF source_stage(xbstream, hostname, restore_type) = <<>>
              THEN [status |-> "Exception", msg |-> "not supported",
                    cmd |-> <<>>, exits |-> <<>>, call |-> call]
              ELSE IF pipeline_status(exits) # 0
              THEN [status |-> "Exception", msg |-> "did not succeed",
                    cmd |-> cmd, exits |-> exits, call |-> call]
              ELSE [status |-> "ok", msg |-> "",
                    cmd |-> cmd, exits |-> exits, call |-> call]
        /\ UNCHANGED <<fs, bk, dir, rm, store, loc, ledger, nextId, tableExists,
                       rl, pp, rep>>

Init_Unpack ==
    /\ unp = [status |-> "none"] /\ rep = [status |-> "none"]
    /\ fs = {} /\ bk = NoBackup
    /\ dir = <<>> /\ rm = [status |-> "none"]
    /\ store = <<>> /\ loc = [status |-> "none"]
    /\ ledger = {} /\ nextId = 1 /\ tableExists = FALSE /\ rl = [op |-> "none"]
    /\ pp = [status |-> "none"]

\* One call, on each input and each outcome of the stages it starts
Next_Unpack ==
    /\ unp.status = "none"
    /\ \E xbstream \in Xbstreams, hostname \in Hosts,
          restore_type \in RestoreTypes, size \in UnpackSizes,
          datadir \in Datadirs :
          \E exits \in [1..Len(build_cmd(xbstream, hostname, restore_type,
                                         size, datadir)) -> ExitStatuses] :
              xbstream_unpack(xbstream, hostname, restore_type, size, datadir,
                              exits)

SpecUnpack == Init_Unpack /\ [][Next_Unpack]_vars

Supported == {"s3", "local_file", "remote_server"}

\* the stages between the source stage and the terminal stage
MiddleStages(cmd) == 2..(Len(cmd) - 1)

\* C12: the pipeline has a source stage chosen by restore_type, a terminal
\* extraction stage, and between them a metering stage exactly when a size is
\* given and the source is not a local file, so 2 or 3 stages; an unsupported
\* restore_type fails and runs no pipeline.
C12_MeterOnlyForNonLocalWithSize ==
    unp.status # "none" =>
        IF unp.call.restore_type \in Supported
        THEN /\ Len(unp.cmd) \in {2, 3}
             /\ unp.cmd[1] = source_stage(unp.call.xbstream, unp.call.hostname,
                                          unp.call.restore_type)
             /\ unp.cmd[Len(unp.cmd)] = extract_stage(unp.call.datadir)
             /\ \A i \in MiddleStages(unp.cmd) :
                    unp.cmd[i] = meter_stage(unp.call.size)
             /\ Len(unp.cmd) = 3 <=>
                    meter_wanted_not_local(unp.call.size, unp.call.restore_type)
        ELSE /\ unp.status = "Exception"
             /\ unp.cmd = <<>>
             /\ unp.exits = <<>>

\* A local_file unpack with a size has run a pipeline of three stages.
C12_Reached ==
    /\ unp.status = "ok"
    /\ unp.call.restore_type = "local_file"
    /\ truthy(unp.call.size)
    /\ Len(unp.cmd) = 3
    /\ unp.cmd[2] = meter_stage(unp.call.size)

\* C13: when the pipeline ran, the call fails exactly when the exit status of
\* the terminal stage is non-zero, whatever the exit statuses of the stages
\* before it.
C13_FailsIffTerminalStageFails ==
    (unp.status # "none" /\ unp.cmd # <<>>) =>
        /\ Len(unp.exits) = Len(unp.cmd)
        /\ unp.status = "Exception" <=> unp.exits[Len(unp.exits)] # 0
        /\ unp.status = "ok" <=> unp.exits[Len(unp.exits)] = 0

\* The call has succeeded on a pipeline whose source stage and metering stage
\* both failed.
C13_Witness ==
    /\ unp.status = "ok"
    /\ Len(unp.cmd) = 3
    /\ unp.exits[1] # 0
    /\ unp.exits[2] # 0
    /\ unp.exits[3] = 0

====
